---- MODULE Spec2Model ----
(***************************************************************************)
(* The story generation pipeline of backend/app/routes/story.py: the job   *)
(* store, the asset store, the per-job workspace directory, the request    *)
(* handlers and the background run _process_story_generation, stage by     *)
(* stage.                                                                  *)
(***************************************************************************)
EXTENDS Integers, Sequences, FiniteSets, TLC

(***************************************************************************)
(* Texts are sequences of one-character strings.                           *)
(***************************************************************************)
NL == "\n"

IsSpace(c) == c \in {" ", NL}

IsTerminator(c) == c \in {".", "!", "?"}

\* s[a..b] with Python's clipping of the upper end
Slice(s, a, b) == IF b < a THEN << >> ELSE SubSeq(s, a, IF b > Len(s) THEN Len(s) ELSE b)

RECURSIVE LStrip(_)
LStrip(s) == IF s # << >> /\ IsSpace(Head(s)) THEN LStrip(Tail(s)) ELSE s

RECURSIVE RStrip(_)
RStrip(s) == IF s # << >> /\ IsSpace(s[Len(s)]) THEN RStrip(SubSeq(s, 1, Len(s) - 1)) ELSE s

\* str.strip()
Strip(s) == RStrip(LStrip(s))

\* str.split('\n\n'): cut at every non-overlapping blank-line separator, left to right
RECURSIVE SplitBlankLines(_, _)
SplitBlankLines(s, cur) ==
    IF s = << >> THEN << cur >>
    ELSE IF Len(s) >= 2 /\ s[1] = NL /\ s[2] = NL
         THEN << cur >> \o SplitBlankLines(SubSeq(s, 3, Len(s)), << >>)
         ELSE SplitBlankLines(Tail(s), Append(cur, Head(s)))

\* [p.strip() for p in parts if p.strip()]
RECURSIVE StripNonEmpty(_)
StripNonEmpty(parts) ==
    IF parts = << >> THEN << >>
    ELSE IF Strip(Head(parts)) # << >>
         THEN << Strip(Head(parts)) >> \o StripNonEmpty(Tail(parts))
         ELSE StripNonEmpty(Tail(parts))

\* re.split(r'(?<=[.!?])\s+', s): cut at every maximal whitespace run that a
\* sentence terminator immediately precedes
RECURSIVE SplitSentences(_, _)
SplitSentences(s, cur) ==
    IF s = << >> THEN << cur >>
    ELSE IF IsSpace(Head(s)) /\ cur # << >> /\ IsTerminator(cur[Len(cur)])
         THEN << cur >> \o SplitSentences(LStrip(s), << >>)
         ELSE SplitSentences(Tail(s), Append(cur, Head(s)))

\* ' '.join(parts)
RECURSIVE JoinSpace(_)
JoinSpace(parts) ==
    IF parts = << >> THEN << >>
    ELSE IF Len(parts) = 1 THEN Head(parts)
         ELSE Head(parts) \o << " " >> \o JoinSpace(Tail(parts))

\* mutant: every chunk holds its first sentence only
RECURSIVE ChunkScenes_FirstOnly(_, _, _)
ChunkScenes_FirstOnly(sentences, i, scenes_per_chunk) ==
    IF i >= Len(sentences) THEN << >>
    ELSE << sentences[i + 1] >> \o ChunkScenes_FirstOnly(sentences, i + scenes_per_chunk, scenes_per_chunk)

\* the loop "for i in range(0, len(sentences), scenes_per_chunk)", i 0-based
RECURSIVE ChunkScenes(_, _, _)
ChunkScenes(sentences, i, scenes_per_chunk) ==
    IF i >= Len(sentences) THEN << >>
    ELSE LET scene == JoinSpace(Slice(sentences, i + 1, i + scenes_per_chunk))
         IN  (IF scene # << >> THEN << scene >> ELSE << >>)
                 \o ChunkScenes(sentences, i + scenes_per_chunk, scenes_per_chunk)

\* mutant: the paragraphs are never looked at
_split_text_into_scenes_SentencesOnly(text, max_scenes) ==
    LET sentences == SplitSentences(Strip(text), << >>)
    IN  IF Len(sentences) <= max_scenes THEN sentences
        ELSE Slice(ChunkScenes(sentences, 0, Len(sentences) \div max_scenes), 1, max_scenes)

\* mutant: the final scenes[:max_scenes] is missing
_split_text_into_scenes_Untruncated(text, max_scenes) ==
    LET paragraphs == StripNonEmpty(SplitBlankLines(text, << >>))
        sentences  == SplitSentences(Strip(text), << >>)
    IN  IF Len(paragraphs) >= 2 /\ Len(paragraphs) <= max_scenes THEN paragraphs
        ELSE IF Len(sentences) <= max_scenes THEN sentences
        ELSE ChunkScenes(sentences, 0, Len(sentences) \div max_scenes)

_split_text_into_scenes(text, max_scenes) ==
    LET paragraphs == StripNonEmpty(SplitBlankLines(text, << >>))
        sentences  == SplitSentences(Strip(text), << >>)
    IN  IF Len(paragraphs) >= 2 /\ Len(paragraphs) <= max_scenes THEN paragraphs
        ELSE IF Len(sentences) <= max_scenes THEN sentences
        ELSE Slice(ChunkScenes(sentences, 0, Len(sentences) \div max_scenes), 1, max_scenes)


\* len(v.strip().split()): the number of whitespace-separated words
RECURSIVE WordCount(_, _)
WordCount(s, inWord) ==
    IF s = << >> THEN 0
    ELSE IF IsSpace(Head(s)) THEN WordCount(Tail(s), FALSE)
         ELSE (IF inWord THEN 0 ELSE 1) + WordCount(Tail(s), TRUE)

MinPromptLen == 10
MaxPromptLen == 1000
MinPromptWords == 5

\* StoryCreate / StoryUpdate: Field(min_length, max_length) and validate_text_prompt
ValidTextPrompt(v) ==
    /\ Len(v) >= MinPromptLen
    /\ Len(v) <= MaxPromptLen
    /\ Strip(v) # << >>
    /\ WordCount(Strip(v), FALSE) >= MinPromptWords

(***************************************************************************)
(* Bounds and input sets                                                   *)
(***************************************************************************)
NumJobs == 1
MaxJobs == 2
MaxRuns == 2
\* uvicorn.run(...) of main.py starts one server process
NumWorkers == 1

\* the story ids; Spec creates NumJobs stories, StoriesSpec MaxJobs
Jobs == 1..MaxJobs
Runs == 1..MaxRuns
Workers == 1..NumWorkers

Users == {"u1", "u2"}
\* the users who create stories; the others only call the handlers of stories they do not own
Owners == {"u1"}
Titles == {"Title1", "Title2"}

\* "a b. c d. e f."  (three sentences)
PromptA == <<"a", " ", "b", ".", " ", "c", " ", "d", ".", " ", "e", " ", "f", ".">>
\* "a b c d e."  (one sentence)
PromptB == <<"a", " ", "b", " ", "c", " ", "d", " ", "e", ".">>
Prompts == {p \in {PromptA, PromptB} : ValidTextPrompt(p)}

None == "None"
max_scenes == 5

(***************************************************************************)
(* Files of a workspace temp_stories/<story_id>, public ids and URLs of    *)
(* the asset store                                                         *)
(***************************************************************************)
SceneFile(idx) == <<"scene", idx>>
NarrationFile == <<"narration", 0>>
VideoFile == <<"story_video", 0>>
TempVideoFile == <<"story_video_temp_video", 0>>
ClipFiles == <<"story_video_temp_video_clip", 0>>

ScenePid(idx) == <<"scene", idx>>
NarrationPid == <<"narration", 0>>
VideoPid == <<"story_video", 0>>
PublicIds == {ScenePid(k) : k \in 1..max_scenes} \cup {NarrationPid, VideoPid}

NoPid == <<"none", 0>>
\* no content is kept under a public id
NoAsset == << >>

\* the URL an upload returns: the public id and the prompt the stored content was made from
Url(pid, prompt) == [pid |-> pid, prompt |-> prompt]
\* a URL field that is None
NoUrl == Url(NoPid, << >>)

NoDoc == [exists |-> FALSE]
NoIds == [images |-> << >>, audio |-> NoPid, video |-> NoPid, present |-> FALSE]
EmptyDir == [exists |-> FALSE, files |-> {}]

IdleRun == [pc |-> "unused", job |-> 0, worker |-> 0, text_prompt |-> << >>,
            scenes |-> 0, idx |-> 0, temp_dir |-> FALSE, temp_files |-> {},
            image_paths |-> << >>, audio_path |-> FALSE, video_path |-> FALSE,
            image_urls |-> << >>, cloudinary_public_ids |-> << >>,
            audio_url |-> NoUrl, audio_public_id |-> NoPid,
            video_url |-> NoUrl, video_public_id |-> NoPid,
            error |-> None, url_scenes |-> << >>, attempted |-> {}, invoked |-> {},
            wrote |-> None, rejected |-> 0]

VARIABLES
    stories,    \* the job store: the document of each story id
    cloud,      \* the asset store: content kept under each public id of each story
    dirs,       \* the workspace directory temp_stories/<story_id> of each story
    tmpfiles,   \* concat file lists in the system temp directory, by run
    vtemp,      \* video_service.temp_files of each worker process
    runs,       \* the runs of _process_story_generation
    tasks,      \* background deletion tasks that were added and have not run
    jobCount,   \* story ids handed out so far
    segment_call,           \* a call of _split_text_into_scenes on its own
    generate_image_call,    \* a call of TogetherImageService.generate_image on its own
    create_video_call       \* a call of VideoService.create_video_from_images on its own

vars == <<stories, cloud, dirs, tmpfiles, vtemp, runs, tasks, jobCount,
          segment_call, generate_image_call, create_video_call>>

\* no call of _split_text_into_scenes has been made
NoSegmentCall ==
    [text |-> << >>, max_scenes |-> 0, returned |-> FALSE, raised |-> FALSE, scenes |-> << >>]

\* no call of generate_image has been made
NoGenerateImageCall ==
    [prompt |-> << >>, pc |-> "idle", attempt |-> 0, signals |-> << >>,
     wait_times |-> << >>]

\* no call of create_video_from_images has been made
NoCreateVideoCall ==
    [pc |-> "idle", image_paths |-> << >>, audio_duration |-> <<0, 1>>,
     duration_per_image |-> <<0, 1>>, transition_duration |-> <<0, 1>>,
     offsets |-> << >>, fell_back |-> FALSE,
     slideshow_images |-> << >>, slideshow_duration |-> <<0, 1>>,
     video_duration |-> <<0, 1>>, speed_factor |-> None, final_duration |-> <<0, 1>>,
     raised_by |-> None]

serverVars == <<stories, cloud, dirs, tmpfiles, vtemp, runs, tasks, jobCount>>

\* the server has started and no request has arrived
ServerInit ==
    /\ stories = [j \in Jobs |-> NoDoc]
    /\ cloud = [j \in Jobs |-> [k \in PublicIds |-> NoAsset]]
    /\ dirs = [j \in Jobs |-> EmptyDir]
    /\ tmpfiles = {}
    /\ vtemp = [w \in Workers |-> {}]
    /\ runs = [r \in Runs |-> IdleRun]
    /\ tasks = {}
    /\ jobCount = 0

Init ==
    /\ ServerInit
    /\ segment_call = NoSegmentCall
    /\ generate_image_call = NoGenerateImageCall
    /\ create_video_call = NoCreateVideoCall

\* mutant: a run gives the event loop up at every stage call
Busy_Never(w) == FALSE

\* a worker process runs one coroutine at a time, and a run never awaits
Busy(w) == \E r \in Runs : runs[r].worker = w /\ runs[r].pc \notin {"unused", "queued", "done"}

FreeRuns == {r \in Runs : runs[r].pc = "unused"}
NextRun == CHOOSE r \in FreeRuns : \A q \in FreeRuns : r <= q


(***************************************************************************)
(* Request handlers.  A handler runs on a worker process that is not in    *)
(* the middle of a run; its background tasks run after the response.  The  *)
(* response of a handler is a function of the record it read and of its    *)
(* inputs.                                                                 *)
(***************************************************************************)
Response(code, data) == [code |-> code, data |-> data]

\* mutant: the record is created as completed
NewStory_Completed(user_id, title, text_prompt) ==
    [exists |-> TRUE, user_id |-> user_id, title |-> title, text_prompt |-> text_prompt,
     image_urls |-> << >>, video_url |-> NoUrl, audio_url |-> NoUrl,
     status |-> "completed", cloudinary_ids |-> NoIds,
     error |-> None, error_message |-> None]

NewStory(user_id, title, text_prompt) ==
    [exists |-> TRUE, user_id |-> user_id, title |-> title, text_prompt |-> text_prompt,
     image_urls |-> << >>, video_url |-> NoUrl, audio_url |-> NoUrl,
     status |-> "processing", cloudinary_ids |-> NoIds,
     error |-> None, error_message |-> None]

QueuedRun(j, w, text_prompt) ==
    [IdleRun EXCEPT !.pc = "queued", !.job = j, !.worker = w, !.text_prompt = text_prompt]

generate_story_response(story_id, store_ok) ==
    IF store_ok THEN Response(201, [story_id |-> story_id, status |-> "processing"])
    ELSE Response(500, None)

\* POST /story/generate
generate_story(w, user_id, title, text_prompt, store_ok) ==
    /\ ~Busy(w)
    /\ jobCount < MaxJobs
    /\ FreeRuns # {}
    /\ IF store_ok
       THEN LET story_id == jobCount + 1
            IN  /\ stories' = [stories EXCEPT ![story_id] = NewStory(user_id, title, Strip(text_prompt))]
                /\ runs' = [runs EXCEPT ![NextRun] = QueuedRun(story_id, w, Strip(text_prompt))]
                /\ jobCount' = jobCount + 1
       ELSE UNCHANGED <<stories, runs, jobCount>>
    /\ UNCHANGED <<cloud, dirs, tmpfiles, vtemp, tasks, segment_call, generate_image_call, create_video_call>>

\* mutant: the ownership check lets every caller through
OwnedBy_Anyone(story_data, user_id) == TRUE

\* _verify_story_ownership
OwnedBy(story_data, user_id) == story_data.user_id = user_id

\* the 404 and 403 exits that get_story, update_story and delete_story share
Refused(story_data, user_id) ==
    IF ~story_data.exists THEN 404
    ELSE IF ~OwnedBy(story_data, user_id) THEN 403
    ELSE 0

get_story_response(story_data, user_id) ==
    IF Refused(story_data, user_id) # 0 THEN Response(Refused(story_data, user_id), None)
    ELSE Response(200, story_data)

\* GET /story/{story_id}
get_story(w, user_id, story_id) ==
    /\ ~Busy(w)
    /\ UNCHANGED vars

\* old_files is the list object story_data["image_urls"] itself, so the appends
\* also change story_data["image_urls"]
OldFiles(story_data) ==
    story_data.image_urls
        \o (IF story_data.audio_url # NoUrl THEN << story_data.audio_url >> ELSE << >>)
        \o (IF story_data.video_url # NoUrl THEN << story_data.video_url >> ELSE << >>)

\* mutant: a new title also puts the story back to processing
UpdatedFields_TitleResetsStatus(story_data, title, text_prompt) ==
    LET titled == IF title # None
                  THEN [story_data EXCEPT !.title = title, !.status = "processing"]
                  ELSE story_data
    IN  IF text_prompt # << >>
        THEN [titled EXCEPT !.text_prompt = Strip(text_prompt), !.status = "processing"]
        ELSE titled

\* lines 601-609: the fields update_story writes
UpdatedFields(story_data, title, text_prompt) ==
    LET titled == IF title # None THEN [story_data EXCEPT !.title = title] ELSE story_data
    IN  IF text_prompt # << >>
        THEN [titled EXCEPT !.text_prompt = Strip(text_prompt), !.status = "processing"]
        ELSE titled

update_story_response(story_data, user_id, title, text_prompt, store_ok) ==
    IF Refused(story_data, user_id) # 0 THEN Response(Refused(story_data, user_id), None)
    ELSE IF ~store_ok THEN Response(500, None)
    ELSE IF text_prompt # << >>
         THEN Response(200, [UpdatedFields(story_data, title, text_prompt)
                                EXCEPT !.image_urls = OldFiles(story_data)])
         ELSE Response(200, UpdatedFields(story_data, title, text_prompt))

\* PUT /story/{story_id}; title is None and text_prompt is empty when not supplied
update_story(w, user_id, story_id, title, text_prompt, store_ok) ==
    LET story_data == stories[story_id]
    IN  /\ ~Busy(w)
        /\ IF Refused(story_data, user_id) # 0 \/ ~store_ok
           THEN UNCHANGED <<stories, runs, tasks>>
           ELSE IF text_prompt # << >>
           THEN /\ FreeRuns # {}
                /\ stories' = [stories EXCEPT ![story_id] =
                                  UpdatedFields(story_data, title, text_prompt)]
                /\ tasks' = tasks \cup
                       (IF OldFiles(story_data) # << >>
                        THEN {[kind |-> "delete_storage", req |-> NextRun, worker |-> w,
                               job |-> story_id, ids |-> NoIds]}
                        ELSE {})
                /\ runs' = [runs EXCEPT ![NextRun] = QueuedRun(story_id, w, Strip(text_prompt))]
           ELSE /\ stories' = [stories EXCEPT ![story_id] =
                                  UpdatedFields(story_data, title, text_prompt)]
                /\ UNCHANGED <<runs, tasks>>
        /\ UNCHANGED <<cloud, dirs, tmpfiles, vtemp, jobCount, segment_call, generate_image_call, create_video_call>>

delete_story_response(story_data, user_id, story_id, store_ok) ==
    IF Refused(story_data, user_id) # 0 THEN Response(Refused(story_data, user_id), None)
    ELSE IF ~store_ok THEN Response(500, None)
    ELSE Response(200, [story_id |-> story_id])

\* DELETE /story/{story_id}
delete_story(w, user_id, story_id, store_ok) ==
    LET story_data == stories[story_id]
    IN  /\ ~Busy(w)
        /\ IF Refused(story_data, user_id) # 0 \/ ~store_ok
           THEN UNCHANGED <<stories, tasks>>
           ELSE /\ tasks' = tasks \cup
                       (IF story_data.cloudinary_ids.present
                        THEN {[kind |-> "delete_cloudinary", req |-> 0, worker |-> w,
                               job |-> story_id, ids |-> story_data.cloudinary_ids]}
                        ELSE {})
                /\ stories' = [stories EXCEPT ![story_id] = NoDoc]
        /\ UNCHANGED <<cloud, dirs, tmpfiles, vtemp, runs, jobCount, segment_call, generate_image_call, create_video_call>>

(***************************************************************************)
(* Background deletion tasks                                               *)
(***************************************************************************)
\* _delete_storage_files looks the URLs up in the Firebase bucket, which holds
\* none of the assets the pipeline uploads: nothing is deleted
_delete_storage_files(t) ==
    /\ t \in tasks
    /\ t.kind = "delete_storage"
    /\ ~Busy(t.worker)
    /\ tasks' = tasks \ {t}
    /\ UNCHANGED <<stories, cloud, dirs, tmpfiles, vtemp, runs, jobCount, segment_call, generate_image_call, create_video_call>>

IdsOf(cloudinary_ids) ==
    ({cloudinary_ids.images[i] : i \in 1..Len(cloudinary_ids.images)}
        \cup {cloudinary_ids.audio, cloudinary_ids.video}) \ {NoPid}

\* _delete_cloudinary_files; deleted is the set of ids whose delete_file succeeds
_delete_cloudinary_files(t, deleted) ==
    /\ t \in tasks
    /\ t.kind = "delete_cloudinary"
    /\ ~Busy(t.worker)
    /\ deleted \subseteq IdsOf(t.ids)
    /\ cloud' = [cloud EXCEPT ![t.job] =
                    [k \in PublicIds |-> IF k \in deleted THEN NoAsset ELSE cloud[t.job][k]]]
    /\ tasks' = tasks \ {t}
    /\ UNCHANGED <<stories, dirs, tmpfiles, vtemp, runs, jobCount, segment_call, generate_image_call, create_video_call>>


(***************************************************************************)
(* _process_story_generation, one action per stage call                    *)
(***************************************************************************)
SetRun(r, new) == runs' = [runs EXCEPT ![r] = new]

\* Path.mkdir(parents=True, exist_ok=True) and open(path, 'wb') in a workspace
WithFile(d, f) == [exists |-> TRUE, files |-> d.files \cup {f}]
MadeDir(d) == [d EXCEPT !.exists = TRUE]

\* the tasks of one request run in the order they were added
FirstOfRequest(r) == ~\E t \in tasks : t.kind = "delete_storage" /\ t.req = r

\* lines 270-276: split the text, create the workspace directory
StartRun(r, mkdir_ok) ==
    LET run == runs[r]
        scenes == _split_text_into_scenes(run.text_prompt, max_scenes)
    IN  /\ run.pc = "queued"
        /\ ~Busy(run.worker)
        /\ FirstOfRequest(r)
        /\ IF mkdir_ok
           THEN /\ dirs' = [dirs EXCEPT ![run.job] = MadeDir(@)]
                /\ SetRun(r, [run EXCEPT !.pc = "images", !.scenes = Len(scenes),
                                         !.idx = 1, !.temp_dir = TRUE])
           ELSE /\ SetRun(r, [run EXCEPT !.pc = "failed_write", !.scenes = Len(scenes),
                                         !.temp_dir = TRUE, !.error = "mkdir failed"])
                /\ UNCHANGED dirs
        /\ UNCHANGED <<stories, cloud, tmpfiles, vtemp, tasks, jobCount, segment_call, generate_image_call, create_video_call>>

\* mutant: the new path is put in front
AddImagePath_Prepend(image_paths, idx) == << idx >> \o image_paths

\* line 293: image_paths.append(result_path)
AddImagePath(image_paths, idx) == Append(image_paths, idx)

\* mutant: the check for an empty image list is missing
NoImages_Never(image_paths) == FALSE

\* lines 298-299
NoImages(image_paths) == image_paths = << >>

\* lines 283-299: the image of scene idx; outcome is what generate_image did:
\* "ok" (the file was written and its path returned) or "fail" (it raised)
GenerateImage(r, outcome) ==
    LET run == runs[r]
        idx == run.idx
        image_paths == IF outcome = "ok" THEN AddImagePath(run.image_paths, idx) ELSE run.image_paths
        temp_files  == IF outcome = "ok" THEN run.temp_files \cup {SceneFile(idx)} ELSE run.temp_files
        last == idx = run.scenes
    IN  /\ run.pc = "images"
        /\ outcome \in {"ok", "fail"}
        /\ dirs' = [dirs EXCEPT ![run.job] =
                       IF outcome = "fail" THEN MadeDir(@) ELSE WithFile(@, SceneFile(idx))]
        /\ SetRun(r, [run EXCEPT !.image_paths = image_paths,
                                 !.temp_files = temp_files,
                                 !.idx = idx + 1,
                                 !.pc = IF ~last THEN "images"
                                        ELSE IF NoImages(image_paths) THEN "failed_write"
                                        ELSE "audio",
                                 !.error = IF last /\ NoImages(image_paths)
                                           THEN "Failed to generate any images" ELSE @])
        /\ UNCHANGED <<stories, cloud, tmpfiles, vtemp, tasks, jobCount, segment_call, generate_image_call, create_video_call>>

\* mutant: the stage ends after the images
AfterImages_SkipsRest(run) == "db_update"

\* mutant: the video upload is attempted whether or not a video was assembled
AfterAudio_AlwaysVideo(run) == "upload_video"

\* where the publish stage goes next
AfterImages(run) == IF run.audio_path THEN "upload_audio"
                    ELSE IF run.video_path THEN "upload_video" ELSE "db_update"
AfterAudio(run) == IF run.video_path THEN "upload_video" ELSE "db_update"

\* mutant: after the narration or the assembly the run returns to the images
BeginPublish_BackToImages(run) == "images"

\* line 338: the loop over image_paths uploads nothing when the list is empty
BeginPublish(run) == IF run.image_paths = << >> THEN AfterImages(run) ELSE "upload_images"

\* mutant: the video is assembled whether or not there is a narration
VideoWanted_IgnoresAudio(audio_path, image_paths) == image_paths # << >>

\* line 317
VideoWanted(audio_path, image_paths) == audio_path /\ image_paths # << >>

\* lines 301-317: the narration of the whole text
GenerateAudio(r, outcome) ==
    LET run == runs[r]
        audio_path == outcome = "ok"
    IN  /\ run.pc = "audio"
        /\ outcome \in {"ok", "fail"}
        /\ dirs' = [dirs EXCEPT ![run.job] =
                       IF outcome = "fail" THEN MadeDir(@) ELSE WithFile(@, NarrationFile)]
        /\ SetRun(r, [run EXCEPT !.audio_path = audio_path,
                                 !.temp_files = IF audio_path THEN @ \cup {NarrationFile} ELSE @,
                                 !.invoked = @ \cup {"narration"},
                                 !.idx = 1,
                                 !.pc = IF VideoWanted(audio_path, run.image_paths)
                                        THEN "video"
                                        ELSE BeginPublish([run EXCEPT !.audio_path = audio_path])])
        /\ UNCHANGED <<stories, cloud, tmpfiles, vtemp, tasks, jobCount, segment_call, generate_image_call, create_video_call>>


(***************************************************************************)
(* VideoService.create_video_from_images.  video_service.temp_files holds  *)
(* <<story_id, file>> for a file of a workspace and <<0, FileList(r)>> for *)
(* the concat file list of run r in the system temp directory.             *)
(***************************************************************************)
FileList(r) == <<"filelist", r>>

\* _cleanup_temp_files: os.remove every listed file that exists
_cleanup_temp_files(listed, ds, tf) ==
    [dirs |-> [j \in Jobs |-> [ds[j] EXCEPT !.files = {f \in @ : <<j, f>> \notin listed}]],
     tmpfiles |-> {x \in tf : <<0, FileList(x)>> \notin listed}]

\* _validate_files(image_paths + [audio_path])
InputsPresent(d, image_paths) ==
    /\ \A i \in 1..Len(image_paths) : SceneFile(image_paths[i]) \in d.files
    /\ NarrationFile \in d.files

VideoOutcomes == {"ok", "fallback_ok", "slideshow_fail", "mux_fail", "probe_fail", "no_ffmpeg"}

\* lines 315-331; outcome is what the transcoder did:
\*   ok              every ffmpeg call succeeded
\*   fallback_ok     the transitions failed, the slideshow and the mux succeeded
\*   slideshow_fail  the slideshow (reached directly or as the fallback) failed
\*   mux_fail        add_audio_to_video failed
\*   probe_fail      _get_media_duration failed
\*   no_ffmpeg       _verify_ffmpeg_installed failed
CreateVideo(r, outcome) ==
    LET run == runs[r]
        j == run.job
        w == run.worker
        n == Len(run.image_paths)
        entered == outcome # "no_ffmpeg" /\ InputsPresent(dirs[j], run.image_paths)
        assembling == entered /\ outcome # "probe_fail"
        transitions == assembling /\ n > 1
        slideshow == assembling /\ (outcome \in {"fallback_ok", "slideshow_fail"} \/ n = 1)
        cleaned == entered /\ (outcome # "ok" \/ slideshow)
        made == outcome \in {"ok", "fallback_ok"} /\ assembling
        listed == vtemp[w] \cup (IF transitions THEN {<<j, ClipFiles>>} ELSE {})
                           \cup (IF slideshow THEN {<<0, FileList(r)>>} ELSE {})
        written == [dirs EXCEPT ![j] =
                       IF ~entered THEN @
                       ELSE [exists |-> TRUE,
                             files |-> @.files
                                 \cup (IF transitions THEN {ClipFiles} ELSE {})
                                 \cup (IF assembling THEN {TempVideoFile} ELSE {})]]
        listedTmp == IF slideshow THEN tmpfiles \cup {r} ELSE tmpfiles
        after == IF cleaned THEN _cleanup_temp_files(listed, written, listedTmp)
                 ELSE [dirs |-> written, tmpfiles |-> listedTmp]
    IN  /\ run.pc = "video"
        /\ outcome \in VideoOutcomes
        /\ outcome = "fallback_ok" => n > 1
        /\ dirs' = [after.dirs EXCEPT ![j] =
                       IF made THEN [@ EXCEPT !.files = (@ \cup {VideoFile}) \ {TempVideoFile}]
                       ELSE @]
        /\ tmpfiles' = after.tmpfiles
        /\ vtemp' = [vtemp EXCEPT ![w] = IF cleaned THEN {} ELSE IF entered THEN listed ELSE @]
        /\ SetRun(r, [run EXCEPT !.video_path = made,
                                 !.temp_files = IF made THEN @ \cup {VideoFile} ELSE @,
                                 !.invoked = @ \cup {"video"},
                                 !.idx = 1,
                                 !.pc = BeginPublish([run EXCEPT !.video_path = made])])
        /\ UNCHANGED <<stories, cloud, tasks, jobCount, segment_call, generate_image_call, create_video_call>>


(***************************************************************************)
(* CloudinaryService.upload_image / upload_audio / upload_video, all with  *)
(* overwrite=False.  What the asset store can do with one upload:          *)
(*   stored    nothing was kept under the public id: the file is stored    *)
(*   existing  an asset is kept under the public id: it is left as it is   *)
(*             and its URL is returned                                     *)
(*   conflict  an asset is kept under the public id: the upload is         *)
(*             rejected, the service returns success False                 *)
(*   fail      the upload raises (network, missing file): success False    *)
(***************************************************************************)
UploadOutcomes(store, pid, file_present) ==
    {"fail"} \cup (IF ~file_present THEN {}
                   ELSE IF store[pid] = NoAsset THEN {"stored"}
                   ELSE {"existing", "conflict"})

upload_file(store, pid, prompt, outcome) ==
    [success   |-> outcome \in {"stored", "existing"},
     url       |-> Url(pid, IF outcome = "stored" THEN prompt ELSE store[pid]),
     public_id |-> pid,
     store     |-> IF outcome = "stored" THEN [store EXCEPT ![pid] = prompt] ELSE store]

\* mutant: the new URL is put in front
AddUrl_Prepend(urls, url) == << url >> \o urls

\* lines 347-348: image_urls.append(url), cloudinary_public_ids.append(public_id)
AddUrl(urls, url) == Append(urls, url)

\* lines 338-353: the upload of image_paths[idx] under public id scene_<idx>
UploadImage(r, outcome) ==
    LET run == runs[r]
        idx == run.idx
        scene == run.image_paths[idx]
        pid == ScenePid(idx)
        result == upload_file(cloud[run.job], pid, run.text_prompt, outcome)
    IN  /\ run.pc = "upload_images"
        /\ idx <= Len(run.image_paths)
        /\ outcome \in UploadOutcomes(cloud[run.job], pid, SceneFile(scene) \in dirs[run.job].files)
        /\ cloud' = [cloud EXCEPT ![run.job] = result.store]
        /\ SetRun(r, [run EXCEPT
                !.image_urls = IF result.success THEN AddUrl(@, result.url) ELSE @,
                !.cloudinary_public_ids = IF result.success THEN AddUrl(@, result.public_id) ELSE @,
                !.url_scenes = IF result.success THEN AddUrl(@, scene) ELSE @,
                !.attempted = @ \cup {pid},
                !.invoked = @ \cup {"publish"},
                !.idx = idx + 1,
                !.pc = IF idx < Len(run.image_paths) THEN "upload_images" ELSE AfterImages(run)])
        /\ UNCHANGED <<stories, dirs, tmpfiles, vtemp, tasks, jobCount, segment_call, generate_image_call, create_video_call>>

\* lines 355-372
UploadAudio(r, outcome) ==
    LET run == runs[r]
        result == upload_file(cloud[run.job], NarrationPid, run.text_prompt, outcome)
    IN  /\ run.pc = "upload_audio"
        /\ outcome \in UploadOutcomes(cloud[run.job], NarrationPid,
                                      NarrationFile \in dirs[run.job].files)
        /\ cloud' = [cloud EXCEPT ![run.job] = result.store]
        /\ SetRun(r, [run EXCEPT
                !.audio_url = IF result.success THEN result.url ELSE @,
                !.audio_public_id = IF result.success THEN result.public_id ELSE @,
                !.attempted = @ \cup {NarrationPid},
                !.pc = AfterAudio(run)])
        /\ UNCHANGED <<stories, dirs, tmpfiles, vtemp, tasks, jobCount, segment_call, generate_image_call, create_video_call>>

\* lines 374-391
UploadVideo(r, outcome) ==
    LET run == runs[r]
        result == upload_file(cloud[run.job], VideoPid, run.text_prompt, outcome)
    IN  /\ run.pc = "upload_video"
        /\ outcome \in UploadOutcomes(cloud[run.job], VideoPid, VideoFile \in dirs[run.job].files)
        /\ cloud' = [cloud EXCEPT ![run.job] = result.store]
        /\ SetRun(r, [run EXCEPT
                !.video_url = IF result.success THEN result.url ELSE @,
                !.video_public_id = IF result.success THEN result.public_id ELSE @,
                !.attempted = @ \cup {VideoPid},
                !.pc = "db_update"])
        /\ UNCHANGED <<stories, dirs, tmpfiles, vtemp, tasks, jobCount, segment_call, generate_image_call, create_video_call>>

(***************************************************************************)
(* The writes to the job record and the cleanup                            *)
(***************************************************************************)
\* document(story_id).update(fields) raises when the document does not exist
\* or the store is unreachable
Accepted(story_id, store_ok) == store_ok /\ stories[story_id].exists

\* lines 395-406
CompletedFields(doc, run) ==
    [doc EXCEPT !.image_urls = run.image_urls,
                !.audio_url = run.audio_url,
                !.video_url = run.video_url,
                !.cloudinary_ids = [images |-> run.cloudinary_public_ids,
                                    audio |-> run.audio_public_id,
                                    video |-> run.video_public_id,
                                    present |-> TRUE],
                !.status = "completed"]

\* mutant: the failed write leaves the status as it is
FailedFields_KeepsStatus(doc, run) == [doc EXCEPT !.error = run.error]

\* lines 420-424
FailedFields(doc, run) == [doc EXCEPT !.status = "failed", !.error = run.error]

\* lines 393-408
DbUpdate(r, store_ok) ==
    LET run == runs[r]
    IN  /\ run.pc = "db_update"
        /\ IF Accepted(run.job, store_ok)
           THEN /\ stories' = [stories EXCEPT ![run.job] = CompletedFields(@, run)]
                /\ SetRun(r, [run EXCEPT !.pc = "cleanup", !.wrote = "completed"])
           ELSE /\ SetRun(r, [run EXCEPT !.pc = "failed_write", !.rejected = @ + 1,
                                         !.error = "job store update failed"])
                /\ UNCHANGED stories
        /\ UNCHANGED <<cloud, dirs, tmpfiles, vtemp, tasks, jobCount, segment_call, generate_image_call, create_video_call>>

\* lines 415-426
FailedWrite(r, store_ok) ==
    LET run == runs[r]
    IN  /\ run.pc = "failed_write"
        /\ IF Accepted(run.job, store_ok)
           THEN /\ stories' = [stories EXCEPT ![run.job] = FailedFields(@, run)]
                /\ SetRun(r, [run EXCEPT !.pc = "cleanup", !.wrote = "failed"])
           ELSE /\ SetRun(r, [run EXCEPT !.pc = "cleanup", !.rejected = @ + 1])
                /\ UNCHANGED stories
        /\ UNCHANGED <<cloud, dirs, tmpfiles, vtemp, tasks, jobCount, segment_call, generate_image_call, create_video_call>>

\* mutant: the files are removed and the directory is left
RemoveWorkspace_KeepsDir(d, temp_files, temp_dir) == [d EXCEPT !.files = {}]

\* mutant: only the files listed in temp_files are removed
RemoveWorkspace_ListedOnly(d, temp_files, temp_dir) == [d EXCEPT !.files = @ \ temp_files]

\* lines 428-443: os.remove(temp_file) for each of temp_files, then
\* shutil.rmtree(temp_dir, ignore_errors=True) when the directory exists
RemoveWorkspace(d, temp_files, temp_dir) ==
    IF temp_dir /\ d.exists THEN EmptyDir
    ELSE [d EXCEPT !.files = @ \ temp_files]

Cleanup(r) ==
    LET run == runs[r]
    IN  /\ run.pc = "cleanup"
        /\ dirs' = [dirs EXCEPT ![run.job] = RemoveWorkspace(@, run.temp_files, run.temp_dir)]
        /\ SetRun(r, [IdleRun EXCEPT !.pc = "done", !.job = run.job, !.worker = run.worker])
        /\ UNCHANGED <<stories, cloud, tmpfiles, vtemp, tasks, jobCount, segment_call, generate_image_call, create_video_call>>

(***************************************************************************)
(* The specification                                                       *)
(***************************************************************************)
Handlers ==
    \E w \in Workers, user_id \in Users, store_ok \in BOOLEAN :
        \/ \E title \in Titles, text_prompt \in Prompts :
               /\ user_id \in Owners /\ title = "Title1"
               /\ jobCount < NumJobs
               /\ jobCount = 0 => w = 1
               /\ generate_story(w, user_id, title, text_prompt, store_ok)
        \/ \E story_id \in Jobs : get_story(w, user_id, story_id)
        \/ \E story_id \in Jobs, title \in Titles \cup {None}, text_prompt \in Prompts \cup {<< >>} :
               /\ title # None \/ text_prompt # << >>
               /\ text_prompt # << >> => stories[story_id].exists
                                          /\ Strip(text_prompt) # stories[story_id].text_prompt
               /\ update_story(w, user_id, story_id, title, text_prompt, store_ok)
        \/ \E story_id \in Jobs : delete_story(w, user_id, story_id, store_ok)

BackgroundTasks ==
    \E t \in tasks :
        \/ _delete_storage_files(t)
        \/ \E deleted \in SUBSET IdsOf(t.ids) : _delete_cloudinary_files(t, deleted)

RunStep(r) ==
        \/ \E mkdir_ok \in BOOLEAN : StartRun(r, mkdir_ok)
        \/ \E outcome \in {"ok", "fail"} : GenerateImage(r, outcome)
        \/ \E outcome \in {"ok", "fail"} : GenerateAudio(r, outcome)
        \/ \E outcome \in VideoOutcomes : CreateVideo(r, outcome)
        \/ \E outcome \in {"stored", "existing", "conflict", "fail"} : UploadImage(r, outcome)
        \/ \E outcome \in {"stored", "existing", "conflict", "fail"} : UploadAudio(r, outcome)
        \/ \E outcome \in {"stored", "existing", "conflict", "fail"} : UploadVideo(r, outcome)
        \/ \E store_ok \in BOOLEAN : DbUpdate(r, store_ok)
        \/ \E store_ok \in BOOLEAN : FailedWrite(r, store_ok)
        \/ Cleanup(r)

Pipeline == \E r \in Runs : RunStep(r)

Next == Handlers \/ BackgroundTasks \/ Pipeline

Spec == Init /\ [][Next]_vars

(***************************************************************************)
(* Several stories, each generated once by the same user, on a server      *)
(* whose collaborators all work except the video assembly.                 *)
(***************************************************************************)
StoriesHandlers ==
    \E text_prompt \in Prompts : generate_story(1, "u1", "Title1", text_prompt, TRUE)

StoriesRunStep(r) ==
        \/ StartRun(r, TRUE)
        \/ GenerateImage(r, "ok")
        \/ GenerateAudio(r, "ok")
        \/ \E outcome \in VideoOutcomes : CreateVideo(r, outcome)
        \/ UploadImage(r, "stored")
        \/ UploadAudio(r, "stored")
        \/ UploadVideo(r, "stored")
        \/ DbUpdate(r, TRUE)
        \/ Cleanup(r)

StoriesNext == StoriesHandlers \/ \E r \in Runs : StoriesRunStep(r)

StoriesSpec == Init /\ [][StoriesNext]_vars

(***************************************************************************)
(* Stories that their owner generates and deletes, on a server whose       *)
(* collaborators all work: every upload stores, every write reaches the    *)
(* job store, every delete_file of the background deletion succeeds.       *)
(***************************************************************************)
DeleteHandlers ==
    \/ \E text_prompt \in Prompts : generate_story(1, "u1", "Title1", text_prompt, TRUE)
    \/ \E story_id \in Jobs : delete_story(1, "u1", story_id, TRUE)

DeleteTasks == \E t \in tasks : _delete_cloudinary_files(t, IdsOf(t.ids))

DeleteRunStep(r) ==
        \/ StartRun(r, TRUE)
        \/ GenerateImage(r, "ok")
        \/ GenerateAudio(r, "ok")
        \/ CreateVideo(r, "ok")
        \/ UploadImage(r, "stored")
        \/ UploadAudio(r, "stored")
        \/ UploadVideo(r, "stored")
        \/ DbUpdate(r, TRUE)
        \/ FailedWrite(r, TRUE)
        \/ Cleanup(r)

DeleteNext == DeleteHandlers \/ DeleteTasks \/ \E r \in Runs : DeleteRunStep(r)

DeleteSpec == Init /\ [][DeleteNext]_vars

(***************************************************************************)
(* _split_text_into_scenes on its own, called once on any text of Texts    *)
(***************************************************************************)
MaxTextLen == 5
MaxSentences == 11

Chars == {"a", ".", " ", NL}

\* every text of at most MaxTextLen characters of Chars
ShortTexts == UNION {[1..n -> Chars] : n \in 0..MaxTextLen}

Letters == <<"a", "b", "c", "d", "e", "f", "g", "h", "i", "j", "k", "l", "m", "n">>
Separators == {<< " " >>, << NL, NL >>}

\* the sentences "a.", "b.", ... with seps[i] between sentence i and sentence i + 1
RECURSIVE LongText(_, _)
LongText(seps, i) ==
    << Letters[i], "." >>
        \o (IF i > Len(seps) THEN << >> ELSE seps[i] \o LongText(seps, i + 1))

\* every text of 1..MaxSentences two-character sentences, a space or a blank
\* line between two of them
LongTexts ==
    {LongText(seps, 1) : seps \in UNION {[1..k -> Separators] : k \in 0..(MaxSentences - 1)}}

Texts == ShortTexts \cup LongTexts

SegmentInit ==
    /\ ServerInit
    /\ segment_call \in {[NoSegmentCall EXCEPT !.text = t] : t \in Texts}
    /\ generate_image_call = NoGenerateImageCall
    /\ create_video_call = NoCreateVideoCall

\* the limits the segmenter is called with: the pipeline's and a smaller one
SceneLimits == {3, max_scenes}

\* the call returns the list of scenes; nothing in the function raises
CallSegmenter(limit) ==
    /\ ~segment_call.returned
    /\ segment_call' = [segment_call EXCEPT
            !.max_scenes = limit,
            !.returned = TRUE,
            !.raised = FALSE,
            !.scenes = _split_text_into_scenes(segment_call.text, limit)]
    /\ UNCHANGED <<serverVars, generate_image_call, create_video_call>>

SegmentNext == \E limit \in SceneLimits : CallSegmenter(limit)

SegmentSpec == SegmentInit /\ [][SegmentNext]_vars

(***************************************************************************)
(* TogetherImageService.generate_image on its own: one call for one scene. *)
(* generate_image_call is the frame of the call: the loop variable         *)
(* attempt, what each pass of the loop met (signals, one entry per call of *)
(* client.images.generate) and every time.sleep made (wait_times).  A      *)
(* signal is what the try block of one pass ends in: "ok" (image generated *)
(* and downloaded), or an exception whose message is MessageOf(signal).    *)
(***************************************************************************)
max_retries == 3
MaxImagePromptLen == 1000

Signals == {"ok", "rate_limit", "invalid_prompt", "no_data", "download_failed", "error"}

MessageOf_AllRateLimit(signal) == {"rate limit"}

\* the marker words the handler looks for in str(e).lower()
MessageOf(signal) ==
    CASE signal = "rate_limit"      -> {"rate limit"}
      [] signal = "invalid_prompt"  -> {"invalid", "prompt"}
      [] signal = "no_data"         -> {}      \* "No image data returned from API"
      [] signal = "download_failed" -> {}      \* "Failed to download image: ..."
      [] OTHER                      -> {}

RECURSIVE Pow2(_)
Pow2(n) == IF n = 0 THEN 1 ELSE 2 * Pow2(n - 1)

OtherWait_Doubled(attempt) == Pow2(attempt) * 2

RateLimitWait(attempt) == Pow2(attempt) * 2
OtherWait(attempt) == Pow2(attempt)

ImagePrompts ==
    { << >>, << " " >>, << "a" >>, << " ", "a", " " >>,
      [i \in 1..MaxImagePromptLen |-> "a"],
      [i \in 1..(MaxImagePromptLen + 1) |-> "a"] }

RetryInit ==
    /\ ServerInit
    /\ segment_call = NoSegmentCall
    /\ create_video_call = NoCreateVideoCall
    /\ generate_image_call \in
           {[NoGenerateImageCall EXCEPT !.prompt = p, !.pc = "called"] : p \in ImagePrompts}

\* lines 63-67: the prompt is checked before any call of the provider
ValidatePrompt ==
    /\ generate_image_call.pc = "called"
    /\ LET prompt == generate_image_call.prompt
       IN  generate_image_call' =
               [generate_image_call EXCEPT
                   !.pc = IF prompt = << >> \/ Strip(prompt) = << >> THEN "ValueError"
                          ELSE IF Len(prompt) > MaxImagePromptLen THEN "ValueError"
                          ELSE "loop"]
    /\ UNCHANGED <<serverVars, segment_call, create_video_call>>

Retry(call, wait_time) ==
    [call EXCEPT !.wait_times = Append(@, wait_time), !.attempt = @ + 1]

\* one pass of `for attempt in range(self.max_retries)`, lines 74-120
Attempt(signal) ==
    /\ generate_image_call.pc = "loop"
    /\ generate_image_call.attempt < max_retries
    /\ LET call == [generate_image_call EXCEPT !.signals = Append(@, signal)]
           attempt == call.attempt
           error_message == MessageOf(signal)
       IN  generate_image_call' =
               IF signal = "ok" THEN [call EXCEPT !.pc = "returned"]
               ELSE IF "rate limit" \in error_message
                    THEN IF attempt < max_retries - 1
                         THEN Retry(call, RateLimitWait(attempt))
                         ELSE [call EXCEPT !.pc = "Exception"]
               ELSE IF "invalid" \in error_message /\ "prompt" \in error_message
                    THEN [call EXCEPT !.pc = "ValueError"]
               ELSE IF attempt < max_retries - 1
                    THEN Retry(call, OtherWait(attempt))
                    ELSE [call EXCEPT !.pc = "Exception"]
    /\ UNCHANGED <<serverVars, segment_call, create_video_call>>

RetryNext == ValidatePrompt \/ \E signal \in Signals : Attempt(signal)

RetrySpec == RetryInit /\ [][RetryNext]_vars

(***************************************************************************)
(* VideoService.create_video_from_images on its own: one call with n       *)
(* images and a narration of audio_duration seconds, every input file      *)
(* present.  Durations are exact fractions <<numerator, denominator>> of a *)
(* second.  create_video_call is the frame of the call.  What the          *)
(* transcoder does with the arguments it is given:                         *)
(*   a clip rendered with t=d lasts d;                                     *)
(*   xfade(first, second, duration, offset) starts the fade offset seconds *)
(*     into its FIRST INPUT and goes on with the second input, so its      *)
(*     output lasts offset + the length of the second input;               *)
(*   the concat of n images of d seconds each lasts n*d;                   *)
(*   setpts with factor*PTS multiplies every timestamp, and so the length  *)
(*     of the stream, by factor.                                           *)
(***************************************************************************)
MaxAudioSeconds == 12

RECURSIVE GCD(_, _)
GCD(a, b) == IF b = 0 THEN a ELSE GCD(b, a % b)

\* the fraction a/b in lowest terms, b > 0
Frac(a, b) == LET g == GCD(IF a < 0 THEN 0 - a ELSE a, b) IN <<a \div g, b \div g>>
Whole(k) == <<k, 1>>
Half == <<1, 2>>
Times(x, y) == Frac(x[1] * y[1], x[2] * y[2])
Over(x, y) == Frac(x[1] * y[2], x[2] * y[1])
Plus(x, y) == Frac(x[1] * y[2] + y[1] * x[2], x[2] * y[2])
Minus(x, y) == Frac(x[1] * y[2] - y[1] * x[2], x[2] * y[2])
Less(x, y) == x[1] * y[2] < y[1] * x[2]
Min(x, y) == IF Less(y, x) THEN y ELSE x
Abs(x) == IF x[1] < 0 THEN <<0 - x[1], x[2]>> ELSE x

\* mutant: the fade takes a quarter of the time of an image
TransitionDuration_Quarter(duration_per_image) == Min(Whole(1), Over(duration_per_image, Whole(4)))

\* line 333
TransitionDuration(duration_per_image) == Min(Whole(1), Over(duration_per_image, Whole(3)))

\* the length of the output of the xfade filter
xfade(first, second, duration, offset) == Plus(offset, second)

\* lines 365-367: the chain over inputs[1..], every clip lasting clip seconds
RECURSIVE CrossfadeChain(_, _, _, _, _)
CrossfadeChain(current, i, n, clip, transition_duration) ==
    IF i >= n THEN current
    ELSE CrossfadeChain(xfade(current, clip, transition_duration,
                              Minus(clip, transition_duration)),
                        i + 1, n, clip, transition_duration)

\* the length of the concat of n images of duration seconds each
ConcatLength(n, duration) == Times(Whole(n), duration)

\* the length of a stream after setpts=factor*PTS
setpts(length, factor) == Times(length, factor)

\* line 196
NeedsAdjusting(video_duration, audio_duration) ==
    Less(Half, Abs(Minus(video_duration, audio_duration)))

\* mutant: an error of the transitions is raised to the caller
AfterTransitionError_Raises(call) ==
    [call EXCEPT !.raised_by = "_create_video_with_transitions", !.pc = "raised"]

\* lines 374-377: the except clause goes on with create_slideshow
AfterTransitionError(call) == [call EXCEPT !.fell_back = TRUE, !.pc = "slideshow"]

VideoInit ==
    /\ ServerInit
    /\ segment_call = NoSegmentCall
    /\ generate_image_call = NoGenerateImageCall
    /\ create_video_call \in
           {[NoCreateVideoCall EXCEPT !.pc = "called",
                                      !.image_paths = [i \in 1..n |-> i],
                                      !.audio_duration = Whole(d)] :
                n \in 1..max_scenes, d \in 1..MaxAudioSeconds}

\* lines 100-129: the narration is measured and the way of assembly chosen
\* (the pipeline calls with add_transitions=True)
MeasureAudio ==
    LET call == create_video_call
        n == Len(call.image_paths)
    IN  /\ call.pc = "called"
        /\ create_video_call' =
               [call EXCEPT !.duration_per_image = Over(call.audio_duration, Whole(n)),
                            !.pc = IF n > 1 THEN "transitions" ELSE "slideshow"]
        /\ UNCHANGED <<serverVars, segment_call, generate_image_call>>

\* _create_video_with_transitions up to its except clause; outcome is "ok",
\* "clip_error" (rendering a clip raised) or "xfade_error" (the chain raised)
RenderTransitions(outcome) ==
    LET call == create_video_call
        n == Len(call.image_paths)
        duration_per_image == call.duration_per_image
        transition_duration == TransitionDuration(duration_per_image)
    IN  /\ call.pc = "transitions"
        /\ create_video_call' =
               IF outcome = "ok"
               THEN [call EXCEPT
                       !.transition_duration = transition_duration,
                       !.offsets = [i \in 1..(n - 1) |->
                                       Minus(duration_per_image, transition_duration)],
                       !.video_duration = CrossfadeChain(duration_per_image, 1, n,
                                              duration_per_image, transition_duration),
                       !.pc = "mux"]
               ELSE AfterTransitionError(
                        [call EXCEPT !.transition_duration = transition_duration])
        /\ UNCHANGED <<serverVars, segment_call, generate_image_call>>

\* create_slideshow, called at line 124 or as the fallback at line 377
CreateSlideshow(outcome) ==
    LET call == create_video_call
        used == [call EXCEPT !.slideshow_images = call.image_paths,
                             !.slideshow_duration = call.duration_per_image]
    IN  /\ call.pc = "slideshow"
        /\ create_video_call' =
               IF outcome = "ok"
               THEN [used EXCEPT !.video_duration = ConcatLength(Len(call.image_paths),
                                                                 call.duration_per_image),
                                 !.pc = "mux"]
               ELSE [used EXCEPT !.raised_by = "create_slideshow", !.pc = "raised"]
        /\ UNCHANGED <<serverVars, segment_call, generate_image_call>>

\* add_audio_to_video, lines 180-222
AddAudio(outcome) ==
    LET call == create_video_call
        video_duration == call.video_duration
        audio_duration == call.audio_duration
        speed_factor == Over(video_duration, audio_duration)
    IN  /\ call.pc = "mux"
        /\ create_video_call' =
               IF outcome # "ok"
               THEN [call EXCEPT !.raised_by = "add_audio_to_video", !.pc = "raised"]
               ELSE IF NeedsAdjusting(video_duration, audio_duration)
               THEN [call EXCEPT !.speed_factor = speed_factor,
                                 !.final_duration = setpts(video_duration, speed_factor),
                                 !.pc = "returned"]
               ELSE [call EXCEPT !.final_duration = video_duration, !.pc = "returned"]
        /\ UNCHANGED <<serverVars, segment_call, generate_image_call>>

VideoNext ==
    \/ MeasureAudio
    \/ \E outcome \in {"ok", "clip_error", "xfade_error"} : RenderTransitions(outcome)
    \/ \E outcome \in {"ok", "fail"} : CreateSlideshow(outcome)
    \/ \E outcome \in {"ok", "fail"} : AddAudio(outcome)

VideoSpec == VideoInit /\ [][VideoNext]_vars



(***************************************************************************)
(* Properties                                                              *)
(***************************************************************************)
JobOf(r) == runs[r].job
Started(r) == runs[r].pc \notin {"unused", "queued", "done"}
Ascending(seq) == \A a, b \in 1..Len(seq) : a < b => seq[a] < seq[b]
Elements(seq) == {seq[i] : i \in 1..Len(seq)}

\* the image stage of run r has seen every scene
ImageStageOver(r) ==
    \/ runs[r].pc = "audio"
    \/ runs[r].pc = "failed_write" /\ runs[r].error = "Failed to generate any images"

\* the scenes whose image generate_image wrote in this run
GeneratedScenes(r) == {k \in 1..runs[r].scenes : SceneFile(k) \in dirs[JobOf(r)].files}

\* C1: when a run ends -- after the completed write, after the failed write for
\* "no image", or after an exception escaped a stage -- the workspace directory of
\* its job does not exist, holds no file, and no file list of the run is left in
\* the system temp directory.
C1_WorkspaceGoneAtRunEnd ==
    [][\A r \in Runs :
          (runs[r].pc # "done" /\ runs'[r].pc = "done")
              => /\ ~dirs'[JobOf(r)].exists
                 /\ dirs'[JobOf(r)].files = {}
                 /\ r \notin tmpfiles']_vars

\* a run whose completed write was accepted has just ended, so it had produced
\* images, and its workspace is gone
C1_Witness ==
    \E r \in Runs :
        /\ runs[r].pc = "done"
        /\ stories[JobOf(r)].exists
        /\ stories[JobOf(r)].status = "completed"
        /\ ~dirs[JobOf(r)].exists

\* C2: a run in which every scene's image failed, and whose failed write the job
\* store accepted, leaves status failed and a non-empty error_message in the
\* record, and has invoked neither narration nor video assembly nor publish.
C2_AllImagesFailed ==
    \A r \in Runs :
        (/\ runs[r].pc = "cleanup"
         /\ runs[r].error = "Failed to generate any images"
         /\ runs[r].wrote = "failed")
            => /\ stories[JobOf(r)].status = "failed"
               /\ stories[JobOf(r)].error_message # None
               /\ runs[r].invoked = {}

\* C3: a run reaches the completed write, and writes completed, only with at
\* least one generated image.
C3_CompletedNeedsImage ==
    \A r \in Runs :
        (runs[r].pc = "db_update" \/ runs[r].wrote = "completed")
            => Len(runs[r].image_paths) >= 1

C3_Witness ==
    \E r \in Runs :
        /\ runs[r].wrote = "completed"
        /\ stories[JobOf(r)].exists
        /\ stories[JobOf(r)].status = "completed"
        /\ Len(runs[r].image_paths) >= 1


\* the job store accepted every write run r has made so far
StoreAccepted(r) == runs[r].rejected = 0

NarrationFailed(r) == "narration" \in runs[r].invoked /\ ~runs[r].audio_path
AssemblyFailed(r) == "video" \in runs[r].invoked /\ ~runs[r].video_path

\* the record of run r's job holds what run r has just written as completed
RecordHoldsRun(r) ==
    /\ stories[JobOf(r)].exists
    /\ stories[JobOf(r)].status = "completed"
    /\ stories[JobOf(r)].image_urls = runs[r].image_urls
    /\ stories[JobOf(r)].audio_url = runs[r].audio_url
    /\ stories[JobOf(r)].video_url = runs[r].video_url

\* C4 as claimed: a run that is about to end (both job-store writes are behind
\* it) always leaves the record with status completed or failed.
C4_EndsTerminal ==
    \A r \in Runs :
        runs[r].pc = "cleanup"
            => /\ stories[JobOf(r)].exists
               /\ stories[JobOf(r)].status \in {"completed", "failed"}

\* the position of run r in the handler's control flow
StageRank(pc) ==
    CASE pc = "unused" -> 0
      [] pc = "queued" -> 1
      [] pc = "images" -> 2
      [] pc = "audio" -> 3
      [] pc = "video" -> 4
      [] pc = "upload_images" -> 5
      [] pc = "upload_audio" -> 6
      [] pc = "upload_video" -> 7
      [] pc = "db_update" -> 8
      [] pc = "failed_write" -> 9
      [] pc = "cleanup" -> 10
      [] pc = "done" -> 11
Rank(r) == StageRank(runs[r].pc) * (max_scenes + 2) + runs[r].idx

\* what a run that is about to end has left in the record
EndState(r) ==
    \/ /\ runs[r].wrote = "completed"
       /\ runs[r].rejected = 0
       /\ stories[JobOf(r)].exists
       /\ stories[JobOf(r)].status = "completed"
    \/ /\ runs[r].wrote = "failed"
       /\ runs[r].rejected \in {0, 1}
       /\ stories[JobOf(r)].exists
       /\ stories[JobOf(r)].status = "failed"
    \/ /\ runs[r].wrote = None
       /\ runs[r].rejected \in {1, 2}

\* C4 amended: a started run can always take its next step and every step moves
\* it forward, so it ends whatever fails; when it is about to end it has written
\* completed or failed to the record and the record holds that status, unless
\* the job store rejected the write (store unreachable, or the record deleted):
\* a rejected completed write is followed by one attempt to write failed, and
\* when that is rejected too the run ends without having written a status.
C4_EndsTerminalUnlessRejected ==
    /\ [](\A r \in Runs : Started(r) => ENABLED RunStep(r))
    /\ [][\A r \in Runs : runs'[r] # runs[r] => Rank(r)' > Rank(r)]_vars
    /\ [](\A r \in Runs : runs[r].pc = "cleanup" => EndState(r))

\* the completed write of a run was rejected and its failed write accepted
C4_Witness ==
    \E r \in Runs :
        /\ runs[r].pc = "cleanup"
        /\ runs[r].wrote = "failed"
        /\ runs[r].rejected = 1
        /\ stories[JobOf(r)].status = "failed"

\* the public ids under which run r has uploaded an image with success
UploadedPids(r) == Elements(runs[r].cloudinary_public_ids)
ImagePids(r) == {ScenePid(k) : k \in 1..Len(runs[r].image_paths)}

\* the publish stage of run r is over
Published(r) ==
    /\ "publish" \in runs[r].invoked
    /\ runs[r].pc \in {"db_update", "failed_write", "cleanup"}

\* the assets run r had to publish
ExpectedPids(r) ==
    ImagePids(r) \cup (IF runs[r].audio_path THEN {NarrationPid} ELSE {})
                 \cup (IF runs[r].video_path THEN {VideoPid} ELSE {})

\* C5: in a run with at least one image whose narration failed, video assembly
\* is never invoked and no narration or video is uploaded; the run goes on to
\* publish its images and writes completed, never failed (the failed write is
\* reached only when the job store rejects the completed write); the record then
\* has audio_url None, video_url None and image_urls holding one URL per image
\* whose upload succeeded, so image_urls is populated as soon as one did.
C5_NarrationFailedCompletes ==
    \A r \in Runs :
        (NarrationFailed(r) /\ Len(runs[r].image_paths) >= 1)
            => /\ "video" \notin runs[r].invoked
               /\ runs[r].attempted \cap {NarrationPid, VideoPid} = {}
               /\ runs[r].audio_url = NoUrl /\ runs[r].video_url = NoUrl
               /\ runs[r].pc \in {"upload_images", "db_update", "failed_write", "cleanup"}
               /\ runs[r].pc = "failed_write" => ~StoreAccepted(r)
               /\ (runs[r].pc = "cleanup" /\ StoreAccepted(r))
                     => /\ runs[r].wrote = "completed"
                        /\ RecordHoldsRun(r)
                        /\ stories[JobOf(r)].audio_url = NoUrl
                        /\ stories[JobOf(r)].video_url = NoUrl
                        /\ Len(stories[JobOf(r)].image_urls) = Cardinality(UploadedPids(r))
                        /\ UploadedPids(r) # {} => stories[JobOf(r)].image_urls # << >>

\* narration failed, an image upload succeeded, the run wrote completed
C5_Witness ==
    \E r \in Runs :
        /\ runs[r].pc = "cleanup"
        /\ NarrationFailed(r)
        /\ runs[r].wrote = "completed"
        /\ stories[JobOf(r)].status = "completed"
        /\ stories[JobOf(r)].image_urls # << >>
        /\ stories[JobOf(r)].audio_url = NoUrl

\* C6: in a run with images and narration whose video assembly failed, no video
\* upload is attempted and video_url stays None; every image and the narration
\* are still handed to the publish stage, and the run writes completed, never
\* failed (the failed write is reached only when the job store rejects the
\* completed write).
C6_AssemblyFailedCompletes ==
    \A r \in Runs :
        AssemblyFailed(r)
            => /\ runs[r].audio_path /\ Len(runs[r].image_paths) >= 1
               /\ VideoPid \notin runs[r].attempted
               /\ runs[r].video_url = NoUrl /\ runs[r].video_public_id = NoPid
               /\ runs[r].pc \in {"upload_images", "upload_audio", "db_update",
                                  "failed_write", "cleanup"}
               /\ runs[r].pc = "failed_write" => ~StoreAccepted(r)
               /\ runs[r].pc \in {"db_update", "failed_write", "cleanup"}
                     => runs[r].attempted = ImagePids(r) \cup {NarrationPid}
               /\ (runs[r].pc = "cleanup" /\ StoreAccepted(r))
                     => /\ runs[r].wrote = "completed"
                        /\ RecordHoldsRun(r)
                        /\ stories[JobOf(r)].video_url = NoUrl

\* assembly failed, images and narration were published, the run wrote completed
C6_Witness ==
    \E r \in Runs :
        /\ runs[r].pc = "cleanup"
        /\ AssemblyFailed(r)
        /\ runs[r].wrote = "completed"
        /\ stories[JobOf(r)].status = "completed"
        /\ stories[JobOf(r)].image_urls # << >>
        /\ stories[JobOf(r)].audio_url # NoUrl
        /\ stories[JobOf(r)].video_url = NoUrl

\* C7 as claimed: whatever subset of the scenes fails, the image stage does not
\* raise and leaves the paths of the generated scenes in ascending scene order.
C7_AnySubsetSkipped ==
    \A r \in Runs :
        ImageStageOver(r)
            => /\ runs[r].pc = "audio"
               /\ Ascending(runs[r].image_paths)
               /\ Elements(runs[r].image_paths) = GeneratedScenes(r)

\* C7 amended: the image stage attempts every scene; when some scene, but not
\* every scene, fails it skips exactly the failed scenes without raising and
\* leaves the paths of the generated scenes in ascending scene order; when
\* every scene fails it raises "Failed to generate any images".
C7_ProperSubsetSkipped ==
    \A r \in Runs :
        /\ runs[r].pc = "images"
              => /\ Ascending(runs[r].image_paths)
                 /\ Elements(runs[r].image_paths) = GeneratedScenes(r)
                 /\ GeneratedScenes(r) \subseteq 1..(runs[r].idx - 1)
                 /\ runs[r].idx <= runs[r].scenes
        /\ ImageStageOver(r)
              => /\ runs[r].idx = runs[r].scenes + 1
                 /\ Ascending(runs[r].image_paths)
                 /\ Elements(runs[r].image_paths) = GeneratedScenes(r)
                 /\ runs[r].pc = "audio" <=> GeneratedScenes(r) # {}
                 /\ runs[r].pc = "failed_write" <=> GeneratedScenes(r) = {}

\* scene 2 of three failed, scenes 1 and 3 are returned in that order
C7_Witness ==
    \E r \in Runs :
        /\ runs[r].pc = "audio"
        /\ runs[r].scenes = 3
        /\ runs[r].image_paths = <<1, 3>>
        /\ SceneFile(2) \notin dirs[JobOf(r)].files

\* C8: every asset the run has (each image, the narration, the video) is handed
\* to the publish stage exactly as if the others had succeeded: when the stage
\* is over every one of them has been attempted, the failed and rejected ones
\* are left out of the URLs, no exception has taken the run to the failed write
\* (it is reached only when the job store rejects the completed write), and the
\* run writes completed with whatever URLs it has.
C8_UploadsIndependent ==
    \A r \in Runs :
        /\ UploadedPids(r) \subseteq runs[r].attempted
        /\ runs[r].audio_url # NoUrl => NarrationPid \in runs[r].attempted
        /\ runs[r].video_url # NoUrl => VideoPid \in runs[r].attempted
        /\ Published(r)
              => /\ runs[r].attempted = ExpectedPids(r)
                 /\ runs[r].pc = "failed_write" => ~StoreAccepted(r)
                 /\ (runs[r].pc = "cleanup" /\ StoreAccepted(r))
                       => /\ runs[r].wrote = "completed"
                          /\ RecordHoldsRun(r)

\* the first image upload failed, a later image and the narration and the video
\* went through, and the run wrote completed
C8_Witness ==
    \E r \in Runs :
        /\ runs[r].pc = "cleanup"
        /\ runs[r].wrote = "completed"
        /\ stories[JobOf(r)].status = "completed"
        /\ Len(runs[r].image_paths) >= 2
        /\ ScenePid(1) \notin UploadedPids(r)
        /\ ScenePid(2) \in UploadedPids(r)
        /\ runs[r].audio_url # NoUrl
        /\ runs[r].video_url # NoUrl

\* the number in a scene's public id
PidIndex(url) == url.pid[2]

\* C9: image_urls of a run is in ascending scene order: the URLs come in the
\* order of their public ids scene_1, scene_2, ..., the i-th URL comes from the
\* upload of the i-th scene that generated an image and whose upload succeeded,
\* and a completed write stores the sequence in that order.
C9_UrlsInSceneOrder ==
    \A r \in Runs :
        /\ Ascending(runs[r].url_scenes)
        /\ Len(runs[r].image_urls) = Len(runs[r].url_scenes)
        /\ Elements(runs[r].url_scenes) \subseteq Elements(runs[r].image_paths)
        /\ \A a, b \in 1..Len(runs[r].image_urls) :
               a < b => PidIndex(runs[r].image_urls[a]) < PidIndex(runs[r].image_urls[b])
        /\ \A a \in 1..Len(runs[r].image_urls) :
               /\ runs[r].image_urls[a].pid \in ImagePids(r)
               /\ runs[r].image_paths[PidIndex(runs[r].image_urls[a])] = runs[r].url_scenes[a]
        /\ (runs[r].pc = "cleanup" /\ runs[r].wrote = "completed")
              => stories[JobOf(r)].image_urls = runs[r].image_urls

\* scene 2 was skipped or its upload failed: the record lists scene 1 then scene 3
C9_Witness ==
    \E r \in Runs :
        /\ runs[r].pc = "cleanup"
        /\ runs[r].wrote = "completed"
        /\ runs[r].url_scenes = <<1, 3>>
        /\ Len(stories[JobOf(r)].image_urls) = 2

\* the URLs a record holds
RecordUrls(doc) ==
    Elements(doc.image_urls) \cup ({doc.audio_url, doc.video_url} \ {NoUrl})

\* C10 as claimed: every asset URL of a record is of an asset produced from the
\* record's current text_prompt.
C10_AssetsOfCurrentPrompt ==
    \A j \in Jobs :
        stories[j].exists
            => \A url \in RecordUrls(stories[j]) : url.prompt = stories[j].text_prompt

\* C11 as claimed: a record carries an error message (the "error" the failed
\* write stores, or error_message) only while its status is failed.
C11_ErrorOnlyIfFailed ==
    \A j \in Jobs :
        (stories[j].exists /\ (stories[j].error # None \/ stories[j].error_message # None))
            => stories[j].status = "failed"

\* the characters of a text that are not whitespace, in order
RECURSIVE NonSpace(_)
NonSpace(s) ==
    IF s = << >> THEN << >>
    ELSE (IF IsSpace(Head(s)) THEN << >> ELSE << Head(s) >>) \o NonSpace(Tail(s))

RECURSIVE Flatten(_)
Flatten(seqs) == IF seqs = << >> THEN << >> ELSE Head(seqs) \o Flatten(Tail(seqs))

IsPrefix(p, s) == Len(p) <= Len(s) /\ SubSeq(s, 1, Len(p)) = p

\* C12: for a text that is not empty after trimming the segmenter returns 1 to
\* 5 scenes, each non-empty and equal to its trimmed form, and the scenes taken
\* one after the other spell the input, whitespace apart, from its start on.
C12_ScenesTrimmedInOrder ==
    (segment_call.returned /\ Strip(segment_call.text) # << >>)
        => /\ ~segment_call.raised
           /\ Len(segment_call.scenes) \in 1..segment_call.max_scenes
           /\ \A i \in 1..Len(segment_call.scenes) :
                  /\ segment_call.scenes[i] # << >>
                  /\ Strip(segment_call.scenes[i]) = segment_call.scenes[i]
           /\ IsPrefix(NonSpace(Flatten(segment_call.scenes)), NonSpace(segment_call.text))

\* eleven sentences were joined two by two into five scenes
C12_Witness ==
    /\ segment_call.returned
    /\ segment_call.max_scenes = 5
    /\ Len(segment_call.scenes) = max_scenes
    /\ segment_call.scenes[1] = << "a", ".", " ", "b", "." >>
    /\ segment_call.scenes[5] = << "i", ".", " ", "j", "." >>

\* C13 as claimed: the segmenter raises exactly when the text is empty after
\* trimming, and returns no empty scene for such a text.
C13_RaisesIffEmpty ==
    segment_call.returned
        => /\ segment_call.raised <=> Strip(segment_call.text) = << >>
           /\ Strip(segment_call.text) = << >>
                 => \A i \in 1..Len(segment_call.scenes) : segment_call.scenes[i] # << >>

NotOwner(user_id, story_id) ==
    stories[story_id].exists /\ stories[story_id].user_id # user_id

\* C15: get_story, update_story and delete_story called for an existing story
\* by a user who is not its owner answer 403 whatever else is in the request,
\* and the step of such a call changes nothing: no record, no asset, no file,
\* no run and no background task.
C15_NonOwnerChangesNothing ==
    /\ [](\A user_id \in Users, story_id \in Jobs :
             NotOwner(user_id, story_id)
                 => /\ get_story_response(stories[story_id], user_id).code = 403
                    /\ \A store_ok \in BOOLEAN :
                           /\ delete_story_response(stories[story_id], user_id,
                                                    story_id, store_ok).code = 403
                           /\ \A title \in Titles \cup {None},
                                 text_prompt \in Prompts \cup {<< >>} :
                                  update_story_response(stories[story_id], user_id, title,
                                                        text_prompt, store_ok).code = 403)
    /\ [][\A w \in Workers, user_id \in Users, story_id \in Jobs, store_ok \in BOOLEAN :
            (/\ NotOwner(user_id, story_id)
             /\ \/ get_story(w, user_id, story_id)
                \/ delete_story(w, user_id, story_id, store_ok)
                \/ \E title \in Titles \cup {None}, text_prompt \in Prompts \cup {<< >>} :
                       update_story(w, user_id, story_id, title, text_prompt, store_ok))
                => UNCHANGED vars]_vars

\* a completed story of u1 with its assets, which u2 asks to delete: 403
C15_Witness ==
    /\ stories[1].exists
    /\ stories[1].user_id = "u1"
    /\ stories[1].status = "completed"
    /\ stories[1].image_urls # << >>
    /\ stories[1].cloudinary_ids.present
    /\ NotOwner("u2", 1)
    /\ ~Busy(1)
    /\ delete_story_response(stories[1], "u2", 1, TRUE).code = 403

WorkspaceOf(r) == runs[r].job

\* run r has been started, so it has used its workspace path
HasRun(r) == runs[r].pc \notin {"unused", "queued"}

OfAnotherRun(entry, r) ==
    IF entry[1] = 0 THEN entry[2] # FileList(r) ELSE entry[1] # JobOf(r)

\* C18 as claimed: a step of a run changes no workspace of another story and
\* neither removes nor deletes anything the run of another story has listed in
\* the video service's temp-file list.
C18_NoSharedState ==
    [][\A r \in Runs :
          (runs[r].pc # "unused" /\ runs'[r] # runs[r])
              => /\ \A j \in Jobs \ {JobOf(r)} : dirs'[j] = dirs[j]
                 /\ \A entry \in vtemp[runs[r].worker] :
                        OfAnotherRun(entry, r) => entry \in vtemp'[runs[r].worker]]_vars

\* C19: one call of generate_image calls the provider at most 3 times; a
\* successful attempt is the last one and the call returns; an attempt that
\* met an invalid-prompt signal is the last one, the call raises ValueError,
\* and no wait was made after it (the waits are those of the earlier failed
\* attempts only).
C19_BoundedAttempts ==
    LET call == generate_image_call
        n == Len(call.signals)
    IN  /\ n <= 3
        /\ call.pc \in {"called", "loop"} \/ n = 0 \/ call.attempt = n - 1
        /\ \A k \in 1..n :
              /\ call.signals[k] = "ok" => k = n /\ call.pc = "returned"
              /\ call.signals[k] = "invalid_prompt" =>
                     /\ k = n
                     /\ call.pc = "ValueError"
                     /\ Len(call.wait_times) = k - 1

\* the third call of the provider answers with an invalid-prompt signal
C19_Witness ==
    /\ Len(generate_image_call.signals) = 3
    /\ generate_image_call.signals[3] = "invalid_prompt"
    /\ generate_image_call.pc = "ValueError"
    /\ Len(generate_image_call.wait_times) = 2

Retryable(signal) == signal \notin {"ok", "invalid_prompt"}

ImageCall(r) == runs[r].pc = "images" /\ runs'[r].idx = runs[r].idx + 1
NarrationCall(r) == "narration" \in runs'[r].invoked \ runs[r].invoked
AssemblyCall(r) == "video" \in runs'[r].invoked \ runs[r].invoked
UploadCall(r) == runs'[r].attempted # runs[r].attempted /\ runs'[r].pc # "done"
CompletedWrite(r) == runs'[r].wrote = "completed" /\ runs[r].wrote # "completed"

\* C21: within one run every image-provider call and the narration call come
\* before the video assembly, the assembly comes before every upload, and
\* every upload comes before the one write that sets status completed: no
\* stage call is made once a later stage has been called.
C21_StagesForward ==
    [][\A r \in Runs :
          /\ ImageCall(r) => /\ runs[r].invoked = {}
                             /\ runs[r].attempted = {}
                             /\ runs[r].wrote = None
          /\ NarrationCall(r) => /\ ImageStageOver(r)
                                 /\ "video" \notin runs[r].invoked
                                 /\ runs[r].attempted = {}
                                 /\ runs[r].wrote = None
          /\ AssemblyCall(r) => /\ "narration" \in runs[r].invoked
                                /\ runs[r].attempted = {}
                                /\ runs[r].wrote = None
          /\ UploadCall(r) => /\ "narration" \in runs[r].invoked
                              /\ runs[r].wrote = None
                              /\ ~AssemblyCall(r)
          /\ CompletedWrite(r) => /\ runs[r].wrote = None
                                  /\ runs[r].attempted # {}
                                  /\ ~UploadCall(r)
                                  /\ runs'[r].pc = "cleanup"]_vars

\* a run that generated two images or more, a narration and a video, uploaded
\* them and wrote completed
C21_Witness ==
    \E r \in Runs :
        /\ runs[r].wrote = "completed"
        /\ {"narration", "video", "publish"} \subseteq runs[r].invoked
        /\ {ScenePid(1), ScenePid(2), NarrationPid, VideoPid} \subseteq runs[r].attempted

\* the paragraphs and the sentences of a text, as the segmenter counts them
ParagraphsOf(text) == StripNonEmpty(SplitBlankLines(text, << >>))
SentencesOf(text) == SplitSentences(Strip(text), << >>)
HasBlankLine(s) == \E i \in 1..(Len(s) - 1) : s[i] = NL /\ s[i + 1] = NL

\* C22: when the trimmed non-empty parts between blank lines number 2 to
\* max_scenes, the segmenter returns exactly these paragraphs in order (each
\* trimmed, non-empty, free of blank lines, together all of the text's
\* non-blank characters); otherwise, when the sentences number max_scenes or
\* fewer, it returns the sentence list.
C22_ParagraphsThenSentences ==
    segment_call.returned =>
        LET text == segment_call.text
            scenes == segment_call.scenes
            p == Len(ParagraphsOf(text))
            limit == segment_call.max_scenes
        IN  /\ (2 <= p /\ p <= limit) =>
                   /\ scenes = ParagraphsOf(text)
                   /\ \A i \in 1..Len(scenes) :
                          /\ scenes[i] # << >>
                          /\ Strip(scenes[i]) = scenes[i]
                          /\ ~HasBlankLine(scenes[i])
                   /\ NonSpace(Flatten(scenes)) = NonSpace(text)
            /\ (~(2 <= p /\ p <= limit) /\ Len(SentencesOf(text)) <= limit) =>
                   scenes = SentencesOf(text)

\* two paragraphs of one word each, a blank line between them
C22_Witness ==
    /\ segment_call.returned
    /\ segment_call.text = << "a", NL, NL, "a" >>
    /\ segment_call.scenes = << << "a" >>, << "a" >> >>

\* C23: when the paragraph rule does not apply and the sentences number n >
\* max_scenes, the segmenter returns exactly max_scenes scenes; with c =
\* floor(n / max_scenes), scene k is sentences (k-1)*c+1 .. k*c (counted from
\* 1) joined with single spaces, and the sentences after the first
\* max_scenes*c are in no scene.
C23_ChunksOfFloorSize ==
    segment_call.returned =>
        LET text == segment_call.text
            scenes == segment_call.scenes
            limit == segment_call.max_scenes
            p == Len(ParagraphsOf(text))
            sentences == SentencesOf(text)
            n == Len(sentences)
            c == n \div limit
        IN  (~(2 <= p /\ p <= limit) /\ n > limit) =>
                /\ Len(scenes) = limit
                /\ \A k \in 1..limit :
                       scenes[k] = JoinSpace(SubSeq(sentences, (k - 1) * c + 1, k * c))
                /\ NonSpace(Flatten(scenes)) = NonSpace(Flatten(SubSeq(sentences, 1, limit * c)))
                /\ \A i \in (limit * c + 1)..n : \A k \in 1..limit :
                       text \in LongTexts => sentences[i][1] \notin Elements(scenes[k])

\* six one-word sentences and max_scenes 3: three chunks of two sentences
C23_Witness ==
    /\ segment_call.returned
    /\ segment_call.max_scenes = 3
    /\ segment_call.text = << "a", ".", " ", "b", ".", " ", "c", ".", " ", "d", ".", " ",
                              "e", ".", " ", "f", "." >>
    /\ segment_call.scenes = << << "a", ".", " ", "b", "." >>,
                                << "c", ".", " ", "d", "." >>,
                                << "e", ".", " ", "f", "." >> >>

\* C27: the time of an image is the narration's duration divided by the
\* number of images, and the transition duration (of an assembly with
\* transitions) is the smaller of one second and a third of that time.
C27_DurationPerImage ==
    LET call == create_video_call
        n == Len(call.image_paths)
        dpi == call.duration_per_image
        td == call.transition_duration
    IN  /\ call.pc \notin {"idle", "called"} =>
               dpi[1] * call.audio_duration[2] * n = call.audio_duration[1] * dpi[2]
        /\ (n > 1 /\ call.pc \notin {"idle", "called", "transitions"}) =>
               IF dpi[1] >= 3 * dpi[2] THEN td = <<1, 1>>
               ELSE td[1] * dpi[2] * 3 = dpi[1] * td[2]

\* 3 images and a narration of 9 seconds: 3 seconds an image, fades of 1 second
C27_Witness ==
    /\ Len(create_video_call.image_paths) = 3
    /\ create_video_call.audio_duration = <<9, 1>>
    /\ create_video_call.duration_per_image = <<3, 1>>
    /\ create_video_call.transition_duration = <<1, 1>>
    /\ create_video_call.pc = "returned"

\* C24 as claimed: when the assembled video and the narration differ by more
\* than half a second the timestamps are scaled by video_duration /
\* audio_duration and the video then lasts as long as the narration; when they
\* differ by half a second or less nothing is scaled.
C24_ScaledToNarration ==
    LET call == create_video_call
        vd == call.video_duration
        ad == call.audio_duration
        diff == Abs(Minus(vd, ad))
    IN  call.pc = "returned" =>
            IF 2 * diff[1] > diff[2]
            THEN /\ call.speed_factor # None
                 /\ call.speed_factor[1] * vd[2] * ad[1] = vd[1] * ad[2] * call.speed_factor[2]
                 /\ call.final_duration = ad
            ELSE /\ call.speed_factor = None
                 /\ call.final_duration = vd

\* C25: an error in the transitions (rendering a clip or chaining the fades)
\* is not raised: the slideshow is built from the same images with the same
\* time per image, and when it succeeds the call goes on to the muxing; a call
\* that raises after such an error raises from the slideshow or the muxing.
C25_FallbackToSlideshow ==
    [][LET call == create_video_call
           after == create_video_call'
       IN  /\ call.pc = "transitions" => after.pc \in {"mux", "slideshow"}
           /\ (call.pc = "slideshow" /\ call.fell_back) =>
                  /\ after.slideshow_images = call.image_paths
                  /\ after.slideshow_duration = call.duration_per_image
                  /\ after.pc = "mux" \/ after.raised_by = "create_slideshow"
           /\ after.pc = "raised" => after.raised_by \in {"create_slideshow", "add_audio_to_video"}
      ]_vars

\* the transitions of three images failed, the slideshow and the muxing worked
C25_Witness ==
    /\ create_video_call.fell_back
    /\ create_video_call.pc = "returned"
    /\ Len(create_video_call.image_paths) = 3
    /\ create_video_call.slideshow_images = create_video_call.image_paths
    /\ create_video_call.slideshow_duration = create_video_call.duration_per_image

\* C26 as claimed: for n > 1 images assembled with transitions every fade
\* starts duration_per_image - transition_duration into the clip before it, so
\* the silent video lasts n * duration_per_image - (n - 1) * transition_duration.
C26_ChainDuration ==
    LET call == create_video_call
        n == Len(call.image_paths)
        dpi == call.duration_per_image
        td == call.transition_duration
    IN  (n > 1 /\ call.offsets # << >>) =>
            /\ \A i \in 1..(n - 1) : call.offsets[i] = Minus(dpi, td)
            /\ call.video_duration = Minus(Times(Whole(n), dpi), Times(Whole(n - 1), td))

\* story j was created and deleted, every run of it has ended and no deletion
\* task for it is waiting
DeletedAndQuiet(j) ==
    /\ j <= jobCount
    /\ ~stories[j].exists
    /\ \A r \in Runs : runs[r].job = j => runs[r].pc = "done"
    /\ \A t \in tasks : t.job # j

\* C28 as claimed: once delete_story has returned for a story and every run of
\* the story has ended, the record does not exist and the asset store keeps
\* nothing under the story's public ids, also when the delete came while a run
\* of the story had not ended.
C28_DeleteLeavesNothing ==
    \A j \in Jobs :
        DeletedAndQuiet(j) => \A k \in PublicIds : cloud[j][k] = NoAsset

\* a step of update_story that gave story j a new text_prompt
PromptUpdated(j) ==
    /\ stories[j].exists
    /\ stories'[j].exists
    /\ stories'[j].text_prompt # stories[j].text_prompt

\* C29 as claimed: update_story with a new text_prompt leaves the record's
\* image_urls as they were and answers with exactly these image_urls: the
\* record's audio_url and video_url are in neither list.
C29_ResponseImageUrls ==
    [][\A j \in Jobs :
          PromptUpdated(j) =>
              /\ stories'[j].image_urls = stories[j].image_urls
              /\ \A title \in Titles \cup {None}, text_prompt \in Prompts :
                     UpdatedFields(stories[j], title, text_prompt) = stories'[j] =>
                         update_story_response(stories[j], stories[j].user_id, title,
                                               text_prompt, TRUE).data.image_urls
                             = stories[j].image_urls]_vars

\* a step of update_story that gave story j a new title and no new text_prompt
TitleUpdated(j) ==
    /\ stories[j].exists
    /\ stories'[j].exists
    /\ stories'[j].title # stories[j].title
    /\ stories'[j].text_prompt = stories[j].text_prompt

\* C30: update_story with a title and no text_prompt changes the title of the
\* record and nothing else in it (status, text_prompt, image_urls, audio_url,
\* video_url stay), deletes no stored asset, adds no deletion task and
\* dispatches no run.
C30_TitleOnlyUpdate ==
    [][\A j \in Jobs :
          TitleUpdated(j) =>
              /\ stories'[j] = [stories[j] EXCEPT !.title = stories'[j].title]
              /\ stories'[j].status = stories[j].status
              /\ stories'[j].image_urls = stories[j].image_urls
              /\ stories'[j].audio_url = stories[j].audio_url
              /\ stories'[j].video_url = stories[j].video_url
              /\ cloud' = cloud
              /\ tasks' = tasks
              /\ runs' = runs]_vars

\* a completed story whose title was changed while only the run of its
\* generation was ever dispatched
C30_Witness ==
    \E j \in Jobs :
        /\ stories[j].exists
        /\ stories[j].title = "Title2"
        /\ stories[j].status = "completed"
        /\ stories[j].image_urls # << >>
        /\ \A r \in Runs : r > 1 => runs[r].pc = "unused"

====
